---- MODULE Spec2Model ----
(***************************************************************************)
(* NGC License Server (app.py): the license store, the validation log and  *)
(* the five request handlers, as a state machine.                          *)
(*                                                                         *)
(* Strings are sequences of characters, so that strip() and upper() are    *)
(* computed.  A date-time is a number of ticks; a calendar date            *)
(* ('%Y-%m-%d') is a day number, TicksPerDay ticks long.  A handler that   *)
(* reads the store and later writes it is two steps (the SELECT, then the  *)
(* write and commit), because Flask serves requests on concurrent threads  *)
(* and each handler opens its own connection; inflight is the bag of the   *)
(* requests that are between their two steps, each with what it read.      *)
(***************************************************************************)
EXTENDS Integers, Sequences, FiniteSets, Bags, TLC

VARIABLES
    licenses,   \* the licenses table: a set of rows
    logs,       \* the validation_logs table: rows in the order of their ids
    now,        \* the clock, datetime.now()
    env,        \* os.environ's ADMIN_API_KEY, or Unset
    inflight,   \* the requests between their SELECT and their write
    resp,       \* the response sent by the last step, NoResp if it sent none
    prevCheck   \* history: the last /check response, while nothing wrote since

vars == <<licenses, logs, now, env, inflight, resp, prevCheck>>

---------------------------------------------------------------------------
(* Bounds of the model *)

TicksPerDay == 2
MaxTime == 2
MaxLog == 1
MaxLogKept == 2
MaxInFlight == 2

(* Program constants *)

DefaultDurationDays == 365
DefaultMaxActivations == 1

None == "None"
Unset == "unset"
DefaultAdminKey == "change-me-in-production"
DefaultProduct == "NGC_EA"

---------------------------------------------------------------------------
(* Strings *)

IsSpace(c) == c = " "

UpperChar(c) == IF c = "a" THEN "A" ELSE IF c = "b" THEN "B" ELSE c

upper(s) == [i \in 1..Len(s) |-> UpperChar(s[i])]

RECURSIVE lstrip(_)
lstrip(s) == IF s # <<>> /\ IsSpace(Head(s)) THEN lstrip(Tail(s)) ELSE s

RECURSIVE rstrip(_)
rstrip(s) ==
    IF s # <<>> /\ IsSpace(s[Len(s)]) THEN rstrip(SubSeq(s, 1, Len(s) - 1)) ELSE s

strip(s) == rstrip(lstrip(s))

NormalizeKey(raw) == upper(strip(raw))

(* dict.get(key, default) on the request's JSON body *)
DictGet(data, field, default) ==
    IF field \in DOMAIN data THEN data[field] ELSE default

---------------------------------------------------------------------------
(* Dates *)

(* datetime.strftime('%Y-%m-%d'): the calendar day of a date-time *)
strftime(t) == t \div TicksPerDay

(* datetime.strptime(d, '%Y-%m-%d'): midnight at the start of day d *)
strptime(d) == d * TicksPerDay

(* timedelta.days: whole days, rounded towards minus infinity *)
TimedeltaDays(delta) == delta \div TicksPerDay

(* mutant: the expiry test compares calendar dates *)
IsExpiredDateOnly(expiry_date, t) == expiry_date < strftime(t)

(* expiry < datetime.now(), the expiry date taken as midnight *)
IsExpired(expiry_date, t) == strptime(expiry_date) < t

Max(a, b) == IF a >= b THEN a ELSE b


---------------------------------------------------------------------------
(* The store *)

(* SQL NULL in the last_validated column *)
NULL == -1

Row(k) == CHOOSE r \in licenses : r.license_key = k

Found(k) == \E r \in licenses : r.license_key = k

(* mutant: the table has no primary key *)
PrimaryKeyIgnored(store, k) == TRUE

(* INSERT INTO licenses: license_key is the PRIMARY KEY *)
PrimaryKeyFree(store, k) == \A r \in store : r.license_key # k

(* AUTOINCREMENT: one more than the largest id ever used; rows are never deleted *)
NextLogId(log) == Len(log) + 1

(* mutant: the log keeps one row per license key, replaced on insert *)
InsertLogReplaces(log, k, t, result) ==
    IF \E i \in 1..Len(log) : log[i].license_key = k
    THEN [i \in 1..Len(log) |->
             IF log[i].license_key = k
             THEN [id |-> log[i].id, license_key |-> k, timestamp |-> t,
                   ip_address |-> "ip", result |-> result]
             ELSE log[i]]
    ELSE Append(log, [id |-> Len(log) + 1, license_key |-> k, timestamp |-> t,
                      ip_address |-> "ip", result |-> result])

(* INSERT INTO validation_logs (license_key, timestamp, ip_address, result) *)
InsertLog(log, k, t, result) ==
    Append(log, [id |-> NextLogId(log), license_key |-> k, timestamp |-> t,
                 ip_address |-> "ip", result |-> result])

AdminApiKey == IF env = Unset THEN DefaultAdminKey ELSE env

NoResp == [op |-> "none"]

---------------------------------------------------------------------------
(* Inputs *)

RawKeys == {<<>>, <<" ">>, <<" ", "a">>, <<"b", " ">>}

(* the keys secrets.token_hex can produce *)
KeySpace == {<<"A">>, <<"B">>}

Headers == {None, DefaultAdminKey, "s3cret"}

GenerateBodies ==
    {<<>>, [email |-> <<" ">>], [email |-> <<"e">>],
     [email |-> <<" ", "e">>, duration_days |-> 0, max_activations |-> 2]}

RevokedRow ==
    [license_key |-> <<"B">>, email |-> <<"e">>, product |-> DefaultProduct,
     created_date |-> 0, expiry_date |-> 0, status |-> "revoked",
     activations |-> 0, max_activations |-> 1, last_validated |-> NULL]

---------------------------------------------------------------------------
(* History of /check responses, kept only in the specification that asks for it *)

HistOff == [on |-> FALSE]

HistNone == [on |-> TRUE, seen |-> FALSE]

Hist(h) == IF prevCheck.on THEN h ELSE HistOff

(* a validate or an activate call forgets the last /check response *)
HistForget == prevCheck' = Hist(HistNone)

(* the response of a /check at time t, remembered with the status its
   predecessor showed when that one was for the same key, found the license
   and no call wrote or issued in between ("-" otherwise) *)
HistCheck(k, body, t) ==
    Hist([on |-> TRUE, seen |-> TRUE, key |-> k, body |-> body, t |-> t,
          issued |-> FALSE,
          was |-> IF /\ prevCheck.on /\ prevCheck.seen /\ prevCheck.key = k
                     /\ ~prevCheck.issued /\ prevCheck.body.found
                  THEN prevCheck.body.status ELSE "-"])

(* a generate call that inserts the key last checked is remembered with it *)
HistIssue(k) ==
    prevCheck' = IF prevCheck.on /\ prevCheck.seen /\ prevCheck.key = k
                 THEN [prevCheck EXCEPT !.issued = TRUE]
                 ELSE prevCheck

---------------------------------------------------------------------------
(* init_db: the tables are created if they do not exist and the rows of an
   earlier run are kept; here one license, revoked by hand since it was issued *)
Init ==
    /\ licenses = {RevokedRow}
    /\ logs = <<>>
    /\ now = 0
    /\ env \in {Unset, "s3cret"}
    /\ inflight = EmptyBag
    /\ resp = NoResp
    /\ prevCheck = HistOff

(* The clock advances *)
Tick ==
    /\ now < MaxTime
    /\ now' = now + 1
    /\ resp' = NoResp
    /\ UNCHANGED <<licenses, logs, env, inflight, prevCheck>>

---------------------------------------------------------------------------
(* POST /activate *)

(* mutant: the ceiling test lets one activation too many through *)
ActivateDecisionOffByOne(k) ==
    IF ~Found(k) THEN "not_found"
    ELSE IF Row(k).status # "active" THEN "inactive"
    ELSE IF Row(k).activations > Row(k).max_activations THEN "max_reached"
    ELSE "ok"

ActivateDecision(k) ==
    IF ~Found(k) THEN "not_found"
    ELSE IF Row(k).status # "active" THEN "inactive"
    ELSE IF Row(k).activations >= Row(k).max_activations THEN "max_reached"
    ELSE "ok"

ActivateFailure(k, d) ==
    [op |-> "activate", key |-> k, code |-> IF d = "missing_key" THEN 400 ELSE 200,
     body |-> [success |-> FALSE,
               message |->
                  IF d = "missing_key" THEN <<"License key is required">>
                  ELSE IF d = "not_found" THEN <<"License not found">>
                  ELSE IF d = "inactive" THEN <<"License is ", Row(k).status>>
                  ELSE <<"Maximum activations (", Row(k).max_activations,
                         ") reached">>]]

(* up to the SELECT and the checks on the row it returned *)
ActivateRequest(raw) ==
    LET k == NormalizeKey(raw)
        d == IF k = <<>> THEN "missing_key" ELSE ActivateDecision(k)
    IN  /\ IF d # "ok" THEN
              /\ resp' = ActivateFailure(k, d)
              /\ UNCHANGED inflight
           ELSE
              /\ BagCardinality(inflight) < MaxInFlight
              /\ inflight' = inflight (+) SetToBag({
                     [op |-> "activate", license_key |-> k,
                      activations |-> Row(k).activations,
                      max_activations |-> Row(k).max_activations]})
              /\ resp' = NoResp
        /\ HistForget
        /\ UNCHANGED <<licenses, logs, now, env>>

(* UPDATE licenses SET activations = activations + 1 WHERE license_key = ? *)
IncrementActivations(store, k) ==
    {IF r.license_key = k THEN [r EXCEPT !.activations = r.activations + 1] ELSE r
       : r \in store}

(* mutant: the UPDATE writes the count read by the SELECT, plus one *)
ActivateUpdateFromRead(l) ==
    /\ BagIn(l, inflight)
    /\ l.op = "activate"
    /\ licenses' = {IF r.license_key = l.license_key
                     THEN [r EXCEPT !.activations = l.activations + 1] ELSE r
                       : r \in licenses}
    /\ resp' = [op |-> "activate", key |-> l.license_key, code |-> 200,
                body |-> [success |-> TRUE,
                          message |-> <<"License activated successfully">>,
                          activations_used |-> l.activations + 1,
                          activations_remaining |->
                              l.max_activations - (l.activations + 1)]]
    /\ inflight' = inflight (-) SetToBag({l})
    /\ HistForget
    /\ UNCHANGED <<logs, now, env>>

(* the UPDATE, the commit and the response built from the values read earlier *)
ActivateUpdate(l) ==
    /\ BagIn(l, inflight)
    /\ l.op = "activate"
    /\ licenses' = IncrementActivations(licenses, l.license_key)
    /\ resp' = [op |-> "activate", key |-> l.license_key, code |-> 200,
                body |-> [success |-> TRUE,
                          message |-> <<"License activated successfully">>,
                          activations_used |-> l.activations + 1,
                          activations_remaining |->
                              l.max_activations - (l.activations + 1)]]
    /\ inflight' = inflight (-) SetToBag({l})
    /\ HistForget
    /\ UNCHANGED <<logs, now, env>>

---------------------------------------------------------------------------
(* POST /validate *)

(* mutant: the activation ceiling blocks validation *)
ValidateDecisionCeilingBlocks(k, t) ==
    IF ~Found(k) THEN "NOT_FOUND"
    ELSE IF strptime(Row(k).expiry_date) < t THEN "EXPIRED"
    ELSE IF Row(k).status # "active" THEN "INACTIVE"
    ELSE IF Row(k).activations >= Row(k).max_activations THEN "INACTIVE"
    ELSE "SUCCESS"

(* mutant: the status is tested before the expiry *)
ValidateDecisionStatusFirst(k, t) ==
    IF ~Found(k) THEN "NOT_FOUND"
    ELSE IF Row(k).status # "active" THEN "INACTIVE"
    ELSE IF IsExpired(Row(k).expiry_date, t) THEN "EXPIRED"
    ELSE "SUCCESS"

(* the first matching branch: not found, expired, not active, success; the
   activation ceiling is looked at and passed over *)
ValidateDecision(k, t) ==
    IF ~Found(k) THEN "NOT_FOUND"
    ELSE IF IsExpired(Row(k).expiry_date, t) THEN "EXPIRED"
    ELSE IF Row(k).status # "active" THEN "INACTIVE"
    ELSE "SUCCESS"

(* the columns the SELECT returns that the handler uses afterwards *)
Selected(k) ==
    IF Found(k)
    THEN [found |-> TRUE, expiry_date |-> Row(k).expiry_date,
          status |-> Row(k).status, product |-> Row(k).product,
          activations |-> Row(k).activations,
          max_activations |-> Row(k).max_activations]
    ELSE [found |-> FALSE]

(* a validation log kept from an earlier run: the revoked license was
   presented the day before, ahead of its expiry *)
KeptLogs ==
    <<[id |-> 1, license_key |-> <<"B">>, timestamp |-> -1,
       ip_address |-> "ip", result |-> "INACTIVE"]>>

(* the number of log rows a run is followed for: MaxLog from an empty log,
   MaxLogKept more rows from a kept one *)
LogBound ==
    IF logs # <<>> /\ logs[1].timestamp < 0
    THEN Len(KeptLogs) + MaxLogKept ELSE MaxLog

PendingLogs ==
    BagCardinality(inflight) -
        BagCardinality([l \in {x \in BagToSet(inflight) : x.op = "activate"}
                          |-> inflight[l]])

(* up to the SELECT and the choice of the branch *)
ValidateRequest(raw) ==
    LET k == NormalizeKey(raw)
    IN  /\ IF k = <<>> THEN
              /\ resp' = [op |-> "validate", key |-> k, code |-> 400,
                          body |-> [valid |-> FALSE,
                                    message |-> <<"License key is required">>]]
              /\ UNCHANGED inflight
           ELSE
              /\ BagCardinality(inflight) < MaxInFlight
              /\ Len(logs) + PendingLogs < LogBound
              /\ inflight' = inflight (+) SetToBag({
                     [op |-> "validate", license_key |-> k,
                      result |-> ValidateDecision(k, now), row |-> Selected(k)]})
              /\ resp' = NoResp
        /\ HistForget
        /\ UNCHANGED <<licenses, logs, now, env>>

(* UPDATE licenses SET last_validated = ? WHERE license_key = ? *)
SetLastValidated(store, k, t) ==
    {IF r.license_key = k THEN [r EXCEPT !.last_validated = t] ELSE r : r \in store}

ValidateBody(l, t) ==
    IF l.result = "NOT_FOUND" THEN
        [valid |-> FALSE, message |-> <<"License key not found">>]
    ELSE IF l.result = "EXPIRED" THEN
        [valid |-> FALSE, message |-> <<"License has expired">>,
         expires |-> l.row.expiry_date]
    ELSE IF l.result = "INACTIVE" THEN
        [valid |-> FALSE, message |-> <<"License status: ", l.row.status>>]
    ELSE
        [valid |-> TRUE, expires |-> l.row.expiry_date, status |-> l.row.status,
         product |-> l.row.product, message |-> <<"License valid">>,
         days_remaining |-> TimedeltaDays(strptime(l.row.expiry_date) - t)]

(* mutant: a key that is not found is not logged *)
LogsAfterValidateSkipsNotFound(l, t) ==
    IF l.result = "NOT_FOUND" THEN logs
    ELSE InsertLog(logs, l.license_key, t, l.result)

(* what the branch writes: its log row and, on success, last_validated *)
LogsAfterValidate(l, t) == InsertLog(logs, l.license_key, t, l.result)

(* mutant: every validate that finds the license stamps last_validated *)
LicensesAfterValidateAnyResult(l, t) ==
    IF l.result # "NOT_FOUND" THEN SetLastValidated(licenses, l.license_key, t)
    ELSE licenses

LicensesAfterValidate(l, t) ==
    IF l.result = "SUCCESS" THEN SetLastValidated(licenses, l.license_key, t)
    ELSE licenses

(* the branch's writes, the commit and the response *)
ValidateWrite(l) ==
    /\ BagIn(l, inflight)
    /\ l.op = "validate"
    /\ logs' = LogsAfterValidate(l, now)
    /\ licenses' = LicensesAfterValidate(l, now)
    /\ resp' = [op |-> "validate", key |-> l.license_key, code |-> 200,
                body |-> ValidateBody(l, now)]
    /\ inflight' = inflight (-) SetToBag({l})
    /\ HistForget
    /\ UNCHANGED <<now, env>>

---------------------------------------------------------------------------
(* Storage errors in /validate and /activate: a statement or the commit
   raises, the handler's except clause answers 500 and returns without a
   commit, and the connection is dropped with its transaction open *)

(* mutant: what the connection wrote before the error stays in the tables *)
RollbackKeepsWrites(committed, uncommitted) == uncommitted

(* the tables after a connection is dropped without a commit *)
Rollback(committed, uncommitted) == committed

(* the points of the write step at which an error can be raised: its first
   statement, its second statement if it has one, the commit *)
TxnSteps == {"first", "second", "commit"}

(* the generic 500 response; logged is the cause, printed on the server only *)
ServerError(op, k, cause) ==
    [op |-> op, key |-> k, code |-> 500, logged |-> cause,
     body |-> IF op = "validate"
              THEN [valid |-> FALSE, message |-> <<"Server error during validation">>]
              ELSE [success |-> FALSE,
                    message |-> <<"Server error during activation">>]]

(* sqlite3.connect or the SELECT raises *)
ReadFault(op, raw) ==
    LET k == NormalizeKey(raw)
    IN  /\ k # <<>>
        /\ resp' = ServerError(op, k, "select")
        /\ HistForget
        /\ UNCHANGED <<licenses, logs, now, env, inflight>>

(* a validate's write step raises at step: on the success branch the UPDATE
   is first and the INSERT second, the other branches have the INSERT only *)
ValidateWriteFault(l, step) ==
    LET two == l.result = "SUCCESS"
        updated == two /\ step \in {"second", "commit"}
        inserted == step = "commit"
    IN  /\ BagIn(l, inflight)
        /\ l.op = "validate"
        /\ step = "second" => two
        /\ licenses' = Rollback(licenses,
                           IF updated THEN LicensesAfterValidate(l, now) ELSE licenses)
        /\ logs' = Rollback(logs, IF inserted THEN LogsAfterValidate(l, now) ELSE logs)
        /\ resp' = ServerError("validate", l.license_key, step)
        /\ inflight' = inflight (-) SetToBag({l})
        /\ HistForget
        /\ UNCHANGED <<now, env>>

(* an activate's write step raises: at the UPDATE or at the commit *)
ActivateUpdateFault(l, step) ==
    /\ BagIn(l, inflight)
    /\ l.op = "activate"
    /\ step # "second"
    /\ licenses' = Rollback(licenses,
                       IF step = "commit"
                       THEN IncrementActivations(licenses, l.license_key)
                       ELSE licenses)
    /\ resp' = ServerError("activate", l.license_key, step)
    /\ inflight' = inflight (-) SetToBag({l})
    /\ HistForget
    /\ UNCHANGED <<logs, now, env>>

---------------------------------------------------------------------------
(* POST /generate *)

(* mutant: a request without the header passes *)
AuthorizedWhenHeaderMissing(api_key) == api_key = None \/ api_key = AdminApiKey

Authorized(api_key) == api_key = AdminApiKey

(* mutant: the email is not trimmed *)
EmailOfUntrimmed(data) == DictGet(data, "email", <<>>)

EmailOf(data) == strip(DictGet(data, "email", <<>>))

NewLicense(k, data, t) ==
    [license_key |-> k, email |-> EmailOf(data),
     product |-> DictGet(data, "product", DefaultProduct),
     created_date |-> strftime(t),
     expiry_date |->
        strftime(t + DictGet(data, "duration_days", DefaultDurationDays) * TicksPerDay),
     status |-> "active", activations |-> 0,
     max_activations |-> DictGet(data, "max_activations", DefaultMaxActivations),
     last_validated |-> NULL]

(* k is the key generate_license_key() returns *)
Generate(api_key, data, k) ==
    LET row == NewLicense(k, data, now)
        \* the request as far as the handler has read it: the header, and
        \* once authorized the body's email
        hdr == [api_key |-> api_key]
        req == [api_key |-> api_key, email |-> DictGet(data, "email", <<>>)]
    IN  /\ IF ~Authorized(api_key) THEN
              /\ resp' = [req |-> hdr, op |-> "generate", code |-> 401,
                          body |-> [success |-> FALSE, message |-> <<"Unauthorized">>]]
              /\ UNCHANGED <<licenses, prevCheck>>
           ELSE IF EmailOf(data) = <<>> THEN
              /\ resp' = [req |-> req, op |-> "generate", code |-> 400,
                          body |-> [success |-> FALSE,
                                    message |-> <<"Email is required">>]]
              /\ UNCHANGED <<licenses, prevCheck>>
           ELSE IF ~PrimaryKeyFree(licenses, k) THEN
              \* sqlite3.IntegrityError, caught by the handler's except clause
              /\ resp' = [req |-> req, op |-> "generate", code |-> 500, generated |-> k,
                          body |-> [success |-> FALSE,
                                    message |-> <<"Server error during generation">>]]
              /\ UNCHANGED <<licenses, prevCheck>>
           ELSE
              /\ licenses' = licenses \cup {row}
              /\ HistIssue(k)
              /\ resp' = [req |-> req, op |-> "generate", code |-> 200, generated |-> k,
                          body |-> [success |-> TRUE, license_key |-> k,
                                    email |-> row.email, product |-> row.product,
                                    created |-> row.created_date,
                                    expires |-> row.expiry_date,
                                    max_activations |-> row.max_activations]]
        /\ UNCHANGED <<logs, now, env, inflight>>

---------------------------------------------------------------------------
(* GET /check/<license_key> *)

CheckBody(k, t) ==
    IF ~Found(k) THEN
        [found |-> FALSE, message |-> <<"License not found">>]
    ELSE
        LET r == Row(k)
            is_expired == IsExpired(r.expiry_date, t)
            days_remaining == TimedeltaDays(strptime(r.expiry_date) - t)
        IN  [found |-> TRUE, license_key |-> k, email |-> r.email,
             product |-> r.product, created |-> r.created_date,
             expires |-> r.expiry_date,
             status |-> IF is_expired THEN "expired" ELSE r.status,
             activations |-> r.activations, max_activations |-> r.max_activations,
             days_remaining |-> Max(0, days_remaining),
             last_validated |-> r.last_validated]

(* mutant: /check stamps last_validated as /validate does *)
CheckTouchesLastValidated(raw) ==
    LET k == NormalizeKey(raw)
    IN  /\ resp' = [op |-> "check", key |-> k, code |-> 200, body |-> CheckBody(k, now)]
        /\ prevCheck' = HistCheck(k, CheckBody(k, now), now)
        /\ licenses' = {IF r.license_key = k THEN [r EXCEPT !.last_validated = now]
                        ELSE r : r \in licenses}
        /\ UNCHANGED <<logs, now, env, inflight>>

(* mutant: the displayed status 'expired' is written back to the row *)
CheckPersistsExpired(raw) ==
    LET k == NormalizeKey(raw)
    IN  /\ resp' = [op |-> "check", key |-> k, code |-> 200, body |-> CheckBody(k, now)]
        /\ prevCheck' = HistCheck(k, CheckBody(k, now), now)
        /\ licenses' = {IF r.license_key = k /\ IsExpired(r.expiry_date, now)
                        THEN [r EXCEPT !.status = "expired"] ELSE r : r \in licenses}
        /\ UNCHANGED <<logs, now, env, inflight>>

Check(raw) ==
    LET k == NormalizeKey(raw)
    IN  /\ resp' = [op |-> "check", key |-> k, code |-> 200, body |-> CheckBody(k, now)]
        /\ prevCheck' = HistCheck(k, CheckBody(k, now), now)
        /\ UNCHANGED <<licenses, logs, now, env, inflight>>

---------------------------------------------------------------------------
(* GET /stats *)

\* SELECT COUNT of the licenses WHERE expiry_date < date('now')
ExpiredCount(t) == Cardinality({r \in licenses : r.expiry_date < strftime(t)})

\* SELECT COUNT of the validation_logs WHERE timestamp LIKE '<today>%'
ValidationsToday(t) ==
    Cardinality({i \in 1..Len(logs) : strftime(logs[i].timestamp) = strftime(t)})

Stats(api_key) ==
    LET req == [api_key |-> api_key]
    IN  /\ IF ~Authorized(api_key) THEN
              resp' = [req |-> req, op |-> "stats", code |-> 401,
                       body |-> [error |-> <<"Unauthorized">>]]
           ELSE
              resp' = [req |-> req, op |-> "stats", code |-> 200,
                       body |-> [total_licenses |-> Cardinality(licenses),
                                 active_licenses |->
                                    Cardinality({r \in licenses : r.status = "active"}),
                                 expired_licenses |-> ExpiredCount(now),
                                 validations_today |-> ValidationsToday(now)]]
        /\ UNCHANGED <<licenses, logs, now, env, inflight, prevCheck>>

---------------------------------------------------------------------------
(* Requests arrive at any time and are served on concurrent threads *)
Next ==
    \/ Tick
    \/ \E raw \in RawKeys : ValidateRequest(raw)
    \/ \E l \in BagToSet(inflight) : ValidateWrite(l)
    \/ \E raw \in RawKeys : ActivateRequest(raw)
    \/ \E l \in BagToSet(inflight) : ActivateUpdate(l)
    \/ \E h \in Headers, data \in GenerateBodies, k \in KeySpace : Generate(h, data, k)
    \/ \E raw \in RawKeys : Check(raw)
    \/ \E h \in Headers : Stats(h)

Spec == Init /\ [][Next]_vars

(* The same handlers with requests served one at a time: a request starts
   only when no other is between its read and its write *)
Quiet == inflight = EmptyBag

SeqNext ==
    \/ Tick
    \/ \E raw \in RawKeys : Quiet /\ ValidateRequest(raw)
    \/ \E l \in BagToSet(inflight) : ValidateWrite(l)
    \/ \E raw \in RawKeys : Quiet /\ ActivateRequest(raw)
    \/ \E l \in BagToSet(inflight) : ActivateUpdate(l)
    \/ \E h \in Headers, data \in GenerateBodies, k \in KeySpace :
           Quiet /\ Generate(h, data, k)
    \/ \E raw \in RawKeys : Quiet /\ Check(raw)
    \/ \E h \in Headers : Quiet /\ Stats(h)

SeqSpec == Init /\ [][SeqNext]_vars

(* Requests one at a time, with the history of /check responses kept, on a
   server whose ADMIN_API_KEY is set *)
HistInit ==
    /\ licenses = {RevokedRow}
    /\ logs = <<>>
    /\ now = 0
    /\ env = "s3cret"
    /\ inflight = EmptyBag
    /\ resp = NoResp
    /\ prevCheck = HistNone

HistSpec == HistInit /\ [][SeqNext]_vars

(* Requests one at a time, any of which may meet a storage error *)
FaultNext ==
    \/ SeqNext
    \/ \E raw \in RawKeys : Quiet /\ ReadFault("validate", raw)
    \/ \E raw \in RawKeys : Quiet /\ ReadFault("activate", raw)
    \/ \E l \in BagToSet(inflight), step \in TxnSteps : ValidateWriteFault(l, step)
    \/ \E l \in BagToSet(inflight), step \in TxnSteps : ActivateUpdateFault(l, step)

FaultSpec == Init /\ [][FaultNext]_vars

(* Requests one at a time, over a database whose log has a row of an earlier
   run *)
LogInit ==
    /\ licenses = {RevokedRow}
    /\ logs = KeptLogs
    /\ now = 0
    /\ env \in {Unset, "s3cret"}
    /\ inflight = EmptyBag
    /\ resp = NoResp
    /\ prevCheck = HistOff

LogSpec == LogInit /\ [][SeqNext]_vars

---------------------------------------------------------------------------
(* Properties *)

(* a request that took its place among the in-flight ones in this step *)
Started(l) == CopiesIn(l, inflight') > CopiesIn(l, inflight)

(* this step sent the response of a validate call that reached the store *)
ValidateAnswered(l) ==
    /\ resp'.op = "validate"
    /\ resp'.key # <<>>
    /\ l.op = "validate"
    /\ l.license_key = resp'.key
    /\ BagIn(l, inflight)
    /\ inflight' = inflight (-) SetToBag({l})

(* C1: for every license, in every reachable state, also when activate calls
   run concurrently, the stored activations is at most max_activations *)
C1_ActivationsWithinCeiling ==
    \A r \in licenses : r.activations <= r.max_activations

(* C2: with requests served one at a time, an activate on a non-empty key
   succeeds iff the license exists, is 'active' and has activations <
   max_activations; a success raises the stored count by exactly 1 and reports
   the new count and what is left of the ceiling; a failure changes nothing,
   and at the ceiling the message is the maximum-activations one *)
C2_SequentialActivate ==
    [][(resp'.op = "activate" /\ resp'.key # <<>>) =>
         LET k == resp'.key
             ok == /\ Found(k)
                   /\ Row(k).status = "active"
                   /\ Row(k).activations < Row(k).max_activations
         IN  /\ resp'.body.success <=> ok
             /\ resp'.body.success =>
                  /\ licenses' = (licenses \ {Row(k)}) \cup
                        {[Row(k) EXCEPT !.activations = Row(k).activations + 1]}
                  /\ resp'.body.activations_used = Row(k).activations + 1
                  /\ resp'.body.activations_remaining =
                        Row(k).max_activations - (Row(k).activations + 1)
             /\ ~resp'.body.success => licenses' = licenses
             /\ (Found(k) /\ Row(k).status = "active" /\ ~ok) =>
                  /\ resp'.body.message[1] = "Maximum activations ("
                  /\ resp'.body.message[2] = Row(k).max_activations
       ]_vars

(* a license with max_activations = 1, activated once, refuses the second call *)
C2_Witness ==
    /\ resp.op = "activate"
    /\ resp.code = 200
    /\ ~resp.body.success
    /\ resp.body.message[1] = "Maximum activations ("
    /\ resp.body.message[2] = 1
    /\ Row(resp.key).activations = 1

(* C3: a validate call with a non-empty normalized key appends exactly one
   entry, for the key presented, whatever the branch; one with an empty key
   appends none and leaves the store alone; no other step appends *)
C3_ValidateLogsOnce ==
    [][/\ (resp'.op = "validate" /\ resp'.key # <<>>) =>
            /\ Len(logs') = Len(logs) + 1
            /\ SubSeq(logs', 1, Len(logs)) = logs
            /\ logs'[Len(logs')].license_key = resp'.key
       /\ (resp'.op = "validate" /\ resp'.key = <<>>) =>
            /\ logs' = logs
            /\ licenses' = licenses
            /\ inflight' = inflight
       /\ resp'.op # "validate" => logs' = logs
      ]_vars

(* a key that is not in the store has been logged *)
C3_Witness ==
    /\ resp.op = "validate"
    /\ resp.body.message[1] = "License key not found"
    /\ Len(logs) = 1
    /\ logs[1].result = "NOT_FOUND"
    /\ logs[1].license_key = resp.key

(* C4: a validate that finds the license, with status 'active' and not
   expired, takes the success branch whatever activations is, and answers
   valid: true *)
C4_CeilingNeverBlocksValidate ==
    [][/\ \A l \in BagToSet(inflight') :
            (l.op = "validate" /\ Started(l)) =>
               LET k == l.license_key
               IN  (/\ Found(k)
                    /\ Row(k).status = "active"
                    /\ Row(k).expiry_date * TicksPerDay >= now)
                   => l.result = "SUCCESS"
       /\ \A l \in BagToSet(inflight) :
            ValidateAnswered(l) => (resp'.body.valid <=> l.result = "SUCCESS")
      ]_vars

(* a license at its ceiling has just been answered valid: true *)
C4_Witness ==
    /\ resp.op = "validate"
    /\ resp.key # <<>>
    /\ resp.body.valid
    /\ Row(resp.key).activations >= Row(resp.key).max_activations
    /\ Row(resp.key).last_validated = now

(* C5: a license whose expiry_date is its creation day is found expired by
   every validate that reads it later on that day, is answered valid: false
   with the expired message and is logged EXPIRED *)
C5_ZeroDurationExpiredSameDay ==
    [][/\ \A l \in BagToSet(inflight') :
            (l.op = "validate" /\ Started(l)) =>
               LET k == l.license_key
               IN  (/\ Found(k)
                    /\ Row(k).expiry_date = Row(k).created_date
                    /\ now \div TicksPerDay = Row(k).created_date
                    /\ now > Row(k).created_date * TicksPerDay)
                   => l.result = "EXPIRED"
       /\ \A l \in BagToSet(inflight) :
            (ValidateAnswered(l) /\ l.result = "EXPIRED") =>
               /\ ~resp'.body.valid
               /\ resp'.body.message = <<"License has expired">>
               /\ logs'[Len(logs')].result = "EXPIRED"
      ]_vars

(* an active license issued for zero days has been rejected on its first day *)
C5_Witness ==
    /\ resp.op = "validate"
    /\ resp.body.message[1] = "License has expired"
    /\ Row(resp.key).status = "active"
    /\ Row(resp.key).expiry_date = Row(resp.key).created_date
    /\ now \div TicksPerDay = Row(resp.key).created_date

(* C6: checkStatus writes nothing; on a license past its expiry with stored
   status 'active' it shows 'expired' and days_remaining 0, and the stored
   status stays 'active' *)
C6_CheckReadOnly ==
    [][resp'.op = "check" =>
         /\ licenses' = licenses
         /\ logs' = logs
         /\ LET k == resp'.key
            IN  (/\ Found(k)
                 /\ Row(k).status = "active"
                 /\ Row(k).expiry_date * TicksPerDay < now)
                => /\ resp'.body.status = "expired"
                   /\ resp'.body.days_remaining = 0
                   /\ \E r \in licenses' : r.license_key = k /\ r.status = "active"
      ]_vars

(* an expired license whose row still says 'active' has been shown *)
C6_Witness ==
    /\ resp.op = "check"
    /\ resp.body.found
    /\ resp.body.status = "expired"
    /\ resp.body.days_remaining = 0
    /\ Row(resp.key).status = "active"

(* two /check responses agree on every field outside ex *)
SameExcept(b1, b2, ex) ==
    /\ DOMAIN b1 = DOMAIN b2
    /\ \A f \in DOMAIN b1 \ ex : b1[f] = b2[f]

(* this step answers a /check for the key of the last /check, with no
   validate or activate call between the two *)
CheckedAgain ==
    /\ prevCheck.on
    /\ prevCheck.seen
    /\ resp'.op = "check"
    /\ resp'.key = prevCheck.key

(* C7, as stated: two successive checkStatus calls on a key, with no activate
   or validate between them, agree on every field but days_remaining, and
   days_remaining differs only when the two calls fall on different days *)
C7_Original ==
    [][CheckedAgain =>
         /\ SameExcept(prevCheck.body, resp'.body, {"days_remaining"})
         /\ (/\ prevCheck.body.found
             /\ prevCheck.body.days_remaining # resp'.body.days_remaining)
            => prevCheck.t \div TicksPerDay # now \div TicksPerDay
      ]_vars

(* C7, amended: with no activate or validate, and no issueLicense creating
   that key, between them, the two responses agree on every field but status and days_remaining; status
   changes only from the stored status to 'expired', when the expiry instant
   is at or after the first call and before the second; days_remaining
   changes only when a midnight is at or after the first call and before the
   second *)
C7_SuccessiveChecks ==
    [][(CheckedAgain /\ ~prevCheck.issued) =>
         /\ SameExcept(prevCheck.body, resp'.body, {"status", "days_remaining"})
         /\ (/\ prevCheck.body.found
             /\ prevCheck.body.status # resp'.body.status)
            => /\ resp'.body.status = "expired"
               /\ prevCheck.body.status = Row(prevCheck.key).status
               /\ prevCheck.t <= prevCheck.body.expires * TicksPerDay
               /\ prevCheck.body.expires * TicksPerDay < now
         /\ (/\ prevCheck.body.found
             /\ prevCheck.body.days_remaining # resp'.body.days_remaining)
            => \E d \in 0..MaxTime :
                  prevCheck.t <= d * TicksPerDay /\ d * TicksPerDay < now
      ]_vars

(* a second /check showed 'expired' where the first showed 'active' *)
C7_Witness ==
    /\ prevCheck.on
    /\ prevCheck.seen
    /\ resp.op = "check"
    /\ prevCheck.was = "active"
    /\ resp.body.status = "expired"

Blank(e) == \A i \in 1..Len(e) : e[i] = " "

(* C8: an authorized generate whose email is missing or all blanks is
   answered with the validation error and inserts no row *)
C8_EmailRequired ==
    [][(/\ resp'.op = "generate"
        /\ resp'.req.api_key = AdminApiKey
        /\ Blank(resp'.req.email))
       => /\ resp'.code = 400
          /\ resp'.body = [success |-> FALSE, message |-> <<"Email is required">>]
          /\ licenses' = licenses
      ]_vars

(* an email of blanks has been refused *)
C8_Witness ==
    /\ resp.op = "generate"
    /\ resp.code = 400
    /\ resp.req.email = <<" ">>

UniqueKeys(store) ==
    \A r1, r2 \in store : r1.license_key = r2.license_key => r1 = r2

(* C10: no state holds two licenses with one key, and a generate whose key is
   already in the store leaves every row as it was *)
C10_KeysUniqueNoOverwrite ==
    [][/\ UniqueKeys(licenses')
       /\ (/\ resp'.op = "generate"
           /\ "generated" \in DOMAIN resp'
           /\ Found(resp'.generated))
          => licenses' = licenses
      ]_vars

(* a generate drew the key of a license already activated, which kept its count *)
C10_Witness ==
    /\ resp.op = "generate"
    /\ resp.code = 500
    /\ resp.generated = <<"A">>
    /\ Found(<<"A">>)
    /\ Row(<<"A">>).activations > 0

(* C11: while ADMIN_API_KEY is not set, every generate and every stats
   request is refused, also one that presents the placeholder value *)
C11_PlaceholderDisablesAdmin ==
    [][(resp'.op \in {"generate", "stats"} /\ env = Unset)
       => /\ resp'.code = 401
          /\ UNCHANGED <<licenses, logs>>
      ]_vars

(* C12: an authorized generate with a non-empty email always ends by
   inserting a row, 'active' with activations 0, under a key that was not in
   the store, and answers with that record *)
C12_CollisionRetried ==
    [][(/\ resp'.op = "generate"
        /\ resp'.req.api_key = AdminApiKey
        /\ ~Blank(resp'.req.email))
       => /\ resp'.code = 200
          /\ ~Found(resp'.body.license_key)
          /\ \E r \in licenses' :
                /\ r.license_key = resp'.body.license_key
                /\ r.status = "active"
                /\ r.activations = 0
                /\ licenses' = licenses \cup {r}
      ]_vars

(* C13: the branch of a validate is the first that matches, in the order not
   found, expired, not active, success, on the row its SELECT returned; the
   result it logs is that branch's and its response agrees with it *)
C13_LogResultByFirstBranch ==
    [][/\ \A l \in BagToSet(inflight') :
            (l.op = "validate" /\ Started(l)) =>
               LET k == l.license_key
                   past == Found(k) /\ Row(k).expiry_date * TicksPerDay < now
               IN  /\ l.result \in {"NOT_FOUND", "EXPIRED", "INACTIVE", "SUCCESS"}
                   /\ l.result = "NOT_FOUND" <=> ~Found(k)
                   /\ l.result = "EXPIRED" <=> past
                   /\ l.result = "INACTIVE" <=>
                         (Found(k) /\ ~past /\ Row(k).status # "active")
       /\ \A l \in BagToSet(inflight) :
            ValidateAnswered(l) =>
               /\ logs'[Len(logs')].result = l.result
               /\ l.result = "SUCCESS" <=> resp'.body.valid
               /\ l.result = "NOT_FOUND" <=>
                     resp'.body.message[1] = "License key not found"
               /\ l.result = "EXPIRED" <=>
                     resp'.body.message[1] = "License has expired"
               /\ l.result = "INACTIVE" <=>
                     resp'.body.message[1] = "License status: "
      ]_vars

(* a revoked license past its expiry has been logged EXPIRED, not INACTIVE *)
C13_Witness ==
    /\ resp.op = "validate"
    /\ resp.key # <<>>
    /\ Found(resp.key)
    /\ Row(resp.key).status = "revoked"
    /\ Len(logs) > 0
    /\ logs[Len(logs)].result = "EXPIRED"
    /\ logs[Len(logs)].license_key = resp.key

(* C14: the days_remaining of a validate answered valid: true before the
   expiry instant is (expiry - now) in days, rounded up *)
C14_DaysRemainingCeiling ==
    [][(/\ resp'.op = "validate"
        /\ resp'.body.valid
        /\ now < resp'.body.expires * TicksPerDay)
       => resp'.body.days_remaining =
             -((now - resp'.body.expires * TicksPerDay) \div TicksPerDay)
      ]_vars

(* C15: a row is inserted with last_validated null; a validate answered
   valid: true sets it to the time of that call; every other step, of any
   handler, leaves it as it was *)
C15_LastValidated ==
    [][\A r2 \in licenses' :
          LET k == r2.license_key
          IN  IF ~Found(k) THEN r2.last_validated = NULL
              ELSE IF resp'.op = "validate" /\ resp'.key = k /\ resp'.body.valid
                   THEN r2.last_validated = now
              ELSE r2.last_validated = Row(k).last_validated
      ]_vars

(* a license validated with success, then expired, has been refused and its
   last_validated still is the time of the success *)
C15_Witness ==
    /\ resp.op = "validate"
    /\ resp.key # <<>>
    /\ ~resp.body.valid
    /\ Found(resp.key)
    /\ Row(resp.key).last_validated # NULL
    /\ Row(resp.key).last_validated < now

(* C16: under any interleaving, a row is inserted with activations 0, a step
   that answers an activate with success: true raises the stored count of
   that key by exactly 1, and no other step changes the count of any row *)
C16_ActivationsCountSuccesses ==
    [][\A r2 \in licenses' :
          LET k == r2.license_key
          IN  IF ~Found(k) THEN r2.activations = 0
              ELSE IF resp'.op = "activate" /\ resp'.key = k /\ resp'.body.success
                   THEN r2.activations = Row(k).activations + 1
              ELSE r2.activations = Row(k).activations
      ]_vars

(* two interleaved activate calls have both succeeded and the count is 2 *)
C16_Witness ==
    /\ resp.op = "activate"
    /\ resp.body.success
    /\ resp.body.activations_used = 1
    /\ Row(resp.key).activations = 2

(* C17: a step either leaves the log as it is or is a validate that appends
   one entry, whose id is greater than every id in the log, after the
   entries there, which stay as they were *)
C17_LogAppendOnly ==
    [][\/ logs' = logs
       \/ /\ resp'.op = "validate"
          /\ Len(logs') = Len(logs) + 1
          /\ \A i \in 1..Len(logs) :
                /\ logs'[i] = logs[i]
                /\ logs'[Len(logs')].id > logs[i].id
      ]_vars

(* the license of the kept entry has been validated again, and the kept
   entry is still the first of the log *)
C17_Witness ==
    /\ resp.op = "validate"
    /\ Len(logs) > Len(KeptLogs)
    /\ logs[1] = KeptLogs[1]
    /\ logs[Len(logs)].license_key = KeptLogs[1].license_key
    /\ logs[Len(logs)].id > logs[1].id

(* C18: a validate or an activate answered 500 carries the generic message
   and leaves the licenses and the log as they were before the request; a
   validate puts a SUCCESS entry in the log exactly when it is answered
   valid: true, and then last_validated of its license is the time of the
   call, else no license changes *)
C18_NoPartialEffect ==
    [][/\ (resp'.op \in {"validate", "activate"} /\ resp'.code = 500)
          => /\ licenses' = licenses
             /\ logs' = logs
             /\ resp'.body.message \in {<<"Server error during validation">>,
                                        <<"Server error during activation">>}
       /\ resp'.op = "validate"
          => /\ resp'.body.valid <=>
                   (Len(logs') > Len(logs) /\ logs'[Len(logs')].result = "SUCCESS")
             /\ resp'.body.valid =>
                   \E r \in licenses' :
                      /\ r.license_key = resp'.key
                      /\ r.last_validated = now
                      /\ licenses' = SetLastValidated(licenses, resp'.key, now)
             /\ ~resp'.body.valid => licenses' = licenses
       /\ resp'.op # "validate" => logs' = logs
      ]_vars

(* a validate on its success branch has been answered 500 after its commit
   failed, and its license has neither a last_validated nor a log entry *)
C18_Witness ==
    /\ resp.op = "validate"
    /\ resp.code = 500
    /\ resp.logged = "commit"
    /\ Found(resp.key)
    /\ Row(resp.key).status = "active"
    /\ Row(resp.key).last_validated = NULL
    /\ logs = <<>>

(* C19: under any interleaving, a successful activate reports the stored
   count as it is right after its own increment, and never a negative
   activations_remaining *)
C19_ReportedCountIsStoredCount ==
    [][(resp'.op = "activate" /\ resp'.body.success)
       => /\ \A r2 \in licenses' :
                r2.license_key = resp'.key
                   => resp'.body.activations_used = r2.activations
          /\ resp'.body.activations_remaining >= 0
      ]_vars

(* C20: the expired_licenses of stats is the number of licenses a validate
   would log EXPIRED, and a /check would show 'expired', at that time *)
C20_StatsExpiredAgrees ==
    [][(resp'.op = "stats" /\ resp'.code = 200)
       => /\ resp'.body.expired_licenses =
                Cardinality({r \in licenses :
                                ValidateDecision(r.license_key, now) = "EXPIRED"})
          /\ resp'.body.expired_licenses =
                Cardinality({r \in licenses :
                                CheckBody(r.license_key, now).status = "expired"})
      ]_vars

====
